---- MODULE Spec2Model ----
(***************************************************************************)
(* papergrid: a Grid of Cells rendered to a bordered text table.           *)
(* Model of src/papergrid/src/lib.rs.                                      *)
(*                                                                         *)
(* A Rust String is a sequence of one-character strings; "\n" is the line  *)
(* break.  usize arithmetic that can leave the range is modelled with its  *)
(* two build outcomes (overflow checks on: panic, off: wrap).  f32 values  *)
(* are modelled bit-exactly for the magnitudes the model reaches.          *)
(***************************************************************************)
EXTENDS Integers, Sequences, FiniteSets, TLC

(* ------------------------------ bounds --------------------------------- *)

\* largest number of rows / columns given to Grid::new
MaxRows == 3
MaxCols == 3
\* largest number of cells (rows * columns) of a grid
MaxCells == 6
\* largest value the width search may reach before the model stops it
MaxWeight == 8
\* largest size given to set_horizontal_ident / set_vertical_ident
MaxIdent == 1
\* number of cell(i, j).set_..() calls made after the grid has its contents
MaxCalls == 1

(* ------------------------------ strings -------------------------------- *)

NL == "\n"

Repeat(s, n) == [k \in 1..(n * Len(s)) |-> s[((k - 1) % Len(s)) + 1]]

RECURSIVE SplitNL(_)
\* the pieces of s between line breaks (always at least one piece)
SplitNL(s) ==
    IF \A k \in 1..Len(s) : s[k] # NL
    THEN <<s>>
    ELSE LET p == CHOOSE k \in 1..Len(s) :
                      s[k] = NL /\ \A q \in 1..(k - 1) : s[q] # NL
         IN <<SubSeq(s, 1, p - 1)>> \o SplitNL(SubSeq(s, p + 1, Len(s)))

\* str::lines: split at line breaks; a final empty piece is not a line
Lines(s) ==
    LET pieces == SplitNL(s)
    IN IF pieces[Len(pieces)] = <<>>
       THEN SubSeq(pieces, 1, Len(pieces) - 1)
       ELSE pieces

RECURSIVE Join(_)
\* [String]::join("\n")
Join(ls) ==
    IF Len(ls) = 0 THEN <<>>
    ELSE IF Len(ls) = 1 THEN ls[1]
    ELSE ls[1] \o <<NL>> \o Join(Tail(ls))

RECURSIVE SumSeq(_)
SumSeq(s) == IF Len(s) = 0 THEN 0 ELSE s[1] + SumSeq(Tail(s))

MaxOf(S) == CHOOSE x \in S : \A y \in S : y <= x
MinOf(S) == CHOOSE x \in S : \A y \in S : x <= y
Range(s) == {s[k] : k \in 1..Len(s)}

(* ------------------------------- f32 ----------------------------------- *)

\* An f32 is NaN or m * 2^e with 0 <= m < 2^24 (24 significant bits).
NaN == [nan |-> TRUE, m |-> 0, e |-> 0]
F32(m, e) == [nan |-> FALSE, m |-> m, e |-> e]

Mant == 2 ^ 24

RECURSIVE ScaleUp(_, _, _)
\* least k with floor(a * 2^k / b) >= 2^23, for 0 < a
ScaleUp(a, b, k) ==
    IF (a * (2 ^ k)) \div b >= Mant \div 2 THEN k ELSE ScaleUp(a, b, k + 1)

RECURSIVE ScaleDown(_, _)
\* least s with floor(p / 2^s) < 2^24
ScaleDown(p, s) ==
    IF p \div (2 ^ s) < Mant THEN s ELSE ScaleDown(p, s + 1)

\* round-to-nearest, ties-to-even, of (q + r/d)
RoundEven(q, r, d) ==
    IF 2 * r > d \/ (2 * r = d /\ q % 2 = 1) THEN q + 1 ELSE q

\* a as f32 / b as f32, for naturals a <= b
F32Div(a, b) ==
    IF b = 0 THEN NaN
    ELSE IF a = 0 THEN F32(0, 0)
    ELSE LET k == ScaleUp(a, b, 0)
             n == a * (2 ^ k)
         IN F32(RoundEven(n \div b, n % b, b), 0 - k)

\* w as f32 * p
F32Mul(w, p) ==
    IF p.nan THEN NaN
    ELSE LET prod == w * p.m
             s == ScaleDown(prod, 0)
         IN F32(RoundEven(prod \div (2 ^ s), prod % (2 ^ s), 2 ^ s), p.e + s)

\* x.floor() as usize (the cast sends NaN to 0)
F32Floor(x) ==
    IF x.nan THEN 0
    ELSE IF x.e >= 0 THEN x.m * (2 ^ x.e)
    ELSE x.m \div (2 ^ (0 - x.e))

\* a < b for two non-NaN values of F32Div
F32Less(a, b) ==
    IF a.m = 0 THEN b.m # 0
    ELSE IF b.m = 0 THEN FALSE
    ELSE a.e < b.e \/ (a.e = b.e /\ a.m < b.m)

\* f32::max: a NaN operand is ignored
F32Max(a, b) ==
    IF a.nan THEN b
    ELSE IF b.nan THEN a
    ELSE IF F32Less(a, b) THEN b ELSE a

(* ------------------------------- Cell ---------------------------------- *)

\* Cell::new
NewCell ==
    [content   |-> <<>>,
     alignment |-> "Center",
     border    |-> [top |-> <<"-">>, bottom |-> <<"-">>, left |-> <<"|">>,
                    right |-> <<"|">>, corner |-> <<"+">>],
     ident     |-> [top |-> 0, bottom |-> 0, left |-> 0, right |-> 0],
     span_row  |-> 0]

\* Cell::height
CellHeight(c) == Len(Lines(c.content))

\* Cell::weight
CellWeight(c) ==
    LET ls == Lines(c.content)
    IN IF Len(ls) = 0 THEN 0 ELSE MaxOf({Len(ls[k]) : k \in 1..Len(ls)})

\* rows(): the row slices of the row-major cell vector
RowsOf(cs, count_rows, count_columns) ==
    [r \in 1..count_rows |->
        SubSeq(cs, count_columns * (r - 1) + 1, count_columns * r)]

\* Grid::cell: the index it unwraps, 0-based; None when get_mut finds nothing
None == 0 - 1
CellIndex(sz, cs, i, j) ==
    LET index == sz[2] * i + j
    IN IF index < Len(cs) THEN index ELSE None

(* ------------------------------ layout --------------------------------- *)

\* row_weight; -1 stands for the usize the subtraction wraps to (0 + 0 - 1)
row_weight(row) == SumSeq(row) + Len(row) - 1

RowSum(row) == SumSeq([k \in 1..Len(row) |-> CellWeight(row[k])])

\* Display::fmt, columns_weight: the largest sum of a row's cell weights
ColumnsWeight(rs) ==
    IF Len(rs) = 0 THEN 0 ELSE MaxOf({RowSum(rs[r]) : r \in 1..Len(rs)})

Spans(row) == [k \in 1..Len(row) |-> row[k].span_row]

\* a grouping that puts every row in a block of its own
BlocksOneRowEach(rs, k, blocks) == [r \in 1..Len(rs) |-> <<r>>]

RECURSIVE BlocksFold(_, _, _)
\* row_portions_blocks, the fold: consecutive rows with equal span vectors
BlocksFold(rs, k, blocks) ==
    IF k > Len(rs) THEN blocks
    ELSE IF Len(blocks) = 0 THEN BlocksFold(rs, k + 1, << <<k>> >>)
    ELSE LET block == blocks[Len(blocks)]
             block_row == block[Len(block)]
         IN IF Spans(rs[block_row]) = Spans(rs[k])
            THEN BlocksFold(rs, k + 1,
                     [blocks EXCEPT ![Len(blocks)] = Append(block, k)])
            ELSE BlocksFold(rs, k + 1, Append(blocks, <<k>>))

Blocks(rs) == BlocksFold(rs, 1, <<>>)

\* the weight of a block: the largest sum of one of its rows' cell weights
BlockWeight(rs, block) == MaxOf({RowSum(rs[block[k]]) : k \in 1..Len(block)})

\* row_portions of a block: cell weight / block weight, every cell of the row
BlockRowPortions(rs, block) ==
    [k \in 1..Len(block) |->
        [c \in 1..Len(rs[block[k]]) |->
            F32Div(CellWeight(rs[block[k]][c]), BlockWeight(rs, block))]]

RECURSIVE MaxPortionsFold(_, _, _)
MaxPortionsFold(row_portions, k, acc) ==
    IF k > Len(row_portions) THEN acc
    ELSE MaxPortionsFold(row_portions, k + 1,
             [c \in 1..Len(acc) |-> F32Max(acc[c], row_portions[k][c])])

\* max_portions of a block
MaxPortions(rs, block) ==
    LET row_portions == BlockRowPortions(rs, block)
    IN MaxPortionsFold(row_portions, 2, row_portions[1])

RECURSIVE FlatBlocks(_, _, _)
FlatBlocks(rs, blocks, k) ==
    IF k > Len(blocks) THEN <<>>
    ELSE LET mp == MaxPortions(rs, blocks[k])
         IN [r \in 1..Len(blocks[k]) |-> mp] \o FlatBlocks(rs, blocks, k + 1)

\* row_portions_blocks: one portion vector per row
row_portions_blocks(rs) == FlatBlocks(rs, Blocks(rs), 1)

\* cell_size, rows_height: max().unwrap() panics on a row without cells
RowsHeightPanics(rs) == \E r \in 1..Len(rs) : Len(rs[r]) = 0

RowsHeight(rs) ==
    [r \in 1..Len(rs) |-> MaxOf({CellHeight(rs[r][c]) : c \in 1..Len(rs[r])})]

\* measure_cell_size: (floor(weight * portion), row height) for every cell
measure_cell_size(rs, ps, rows_height, w) ==
    [r \in 1..Len(rs) |->
        [c \in 1..Len(rs[r]) |->
            <<F32Floor(F32Mul(w, ps[r][c])), rows_height[r]>>]]

\* is_rows_size: the positive widths of each row
PositiveWeights(row) ==
    SelectSeq([c \in 1..Len(row) |-> row[c][1]], LAMBDA w : w > 0)

\* is_rows_size subtracts from 0 when a row has no positive width
RowsSizeUnderflows(szs) ==
    \E r \in 1..Len(szs) : Len(PositiveWeights(szs[r])) = 0

\* is_rows_size: min == max of the row weights (None == None when no rows)
is_rows_size(szs) ==
    Cardinality({row_weight(PositiveWeights(szs[r])) : r \in 1..Len(szs)}) <= 1

(* ---------------------------- CellFormatter ---------------------------- *)

\* CellFormatter::new(cell).weight(w).height(h).boxed(); the reference cell is
\* the 0-based index of the cell in Grid.cells
Boxed(cell, w, h) ==
    [cell |-> cell, left |-> TRUE, right |-> TRUE, top |-> TRUE,
     bottom |-> TRUE, left_connection |-> TRUE, right_connection |-> TRUE,
     weight |-> w, height |-> h]

\* un_left().un_left_connection()
UnLeft(f) == [f EXCEPT !.left = FALSE, !.left_connection = FALSE]

\* un_top()
UnTop(f) == [f EXCEPT !.top = FALSE]

\* CellFormatter::full_weight
full_weight(cs, f) ==
    f.weight + cs[f.cell + 1].ident.left + cs[f.cell + 1].ident.right

\* align: format!("{: ^w$}") and its Left and Right forms; never truncates
align(text, a, length) ==
    LET pad == IF length > Len(text) THEN length - Len(text) ELSE 0
        sp(n) == [k \in 1..n |-> " "]
    IN CASE a = "Center" -> sp(pad \div 2) \o text \o sp(pad - pad \div 2)
         [] a = "Left"   -> text \o sp(pad)
         [] a = "Right"  -> sp(pad) \o text

\* CellFormatter::format: the lines it joins
FormatLines(cs, f) ==
    LET c == cs[f.cell + 1]
        weight == IF f.weight = 0 THEN CellWeight(c) ELSE f.weight
        count_lines == Cardinality({k \in 1..Len(c.content) : c.content[k] = NL})
        pushed == IF f.height > count_lines
                  THEN c.content \o Repeat(<<NL>>, f.height - count_lines)
                  ELSE c.content
        content == Repeat(<<NL>>, c.ident.top) \o pushed
                       \o Repeat(<<NL>>, c.ident.bottom)
        left_ident == Repeat(<<" ">>, c.ident.left)
        right_ident == Repeat(<<" ">>, c.ident.right)
        left_border == IF f.left THEN c.border.left ELSE <<>>
        right_border == IF f.right THEN c.border.right ELSE <<>>
        ls == Lines(content)
        lines == [k \in 1..Len(ls) |->
                     left_border \o left_ident \o align(ls[k], c.alignment, weight)
                         \o right_ident \o right_border]
        lhs == IF f.left_connection THEN c.border.corner ELSE <<>>
        rhs == IF f.right_connection THEN c.border.corner ELSE <<>>
        full == weight + c.ident.left + c.ident.right
    IN (IF f.top THEN <<lhs \o Repeat(c.border.top, full) \o rhs>> ELSE <<>>)
           \o lines
           \o (IF f.bottom THEN <<lhs \o Repeat(c.border.bottom, full) \o rhs>>
               ELSE <<>>)

\* CellFormatter::format
Format(cs, f) == Join(FormatLines(cs, f))

\* concat_lines: the assertion on the two line counts
ConcatAsserts(a, b) == Len(Lines(a)) = Len(Lines(b))

\* concat_lines: zip the lines, join with line breaks
concat_lines(a, b) ==
    LET la == Lines(a)
        lb == Lines(b)
        n == IF Len(la) < Len(lb) THEN Len(la) ELSE Len(lb)
    IN Join([k \in 1..n |-> la[k] \o lb[k]])

RECURSIVE ConcatFold(_, _, _)
\* concat_row: fold the blocks from the left; ok is FALSE once an assertion fails
ConcatFold(acc, row, k) ==
    IF k > Len(row) THEN [ok |-> TRUE, text |-> acc]
    ELSE IF ~ConcatAsserts(acc, row[k]) THEN [ok |-> FALSE, text |-> acc]
    ELSE ConcatFold(concat_lines(acc, row[k]), row, k + 1)

concat_row(row) ==
    IF Len(row) = 0 THEN [ok |-> TRUE, text |-> <<>>]
    ELSE ConcatFold(row[1], row, 2)

(* ----------------------------- Display::fmt ---------------------------- *)

\* the formatters of one row: cells of width 0 are skipped
RowFormatters(row, row_sizes, row_index) ==
    LET shown == SelectSeq([c \in 1..Len(row) |-> c],
                           LAMBDA c : row_sizes[c][1] # 0)
    IN [k \in 1..Len(shown) |->
           LET column_index == shown[k] - 1
               f0 == Boxed(Len(row) * row_index + column_index,
                           row_sizes[shown[k]][1],
                           row_sizes[shown[k]][2])
               f1 == IF column_index # 0 THEN UnLeft(f0) ELSE f0
           IN IF row_index # 0 THEN UnTop(f1) ELSE f1]

Formatters(rs, szs) ==
    [r \in 1..Len(rs) |-> RowFormatters(rs[r], szs[r], r - 1)]

FullWeights(cs, r) == [k \in 1..Len(r) |-> full_weight(cs, r[k])]

\* adjust: r.len() - 1 wraps, and rest_weight / r.len() divides by zero, on a
\* row without formatters
AdjustEmptyRow(g) == \E r \in 1..Len(g) : Len(g[r]) = 0

\* adjust, for rows that all have a formatter
adjust(cs, g) ==
    LET weight == IF Len(g) = 0 THEN 0
                  ELSE MaxOf({row_weight(FullWeights(cs, g[r])) : r \in 1..Len(g)})
    IN [r \in 1..Len(g) |->
           LET rw == SumSeq(FullWeights(cs, g[r]))
               rest_weight == weight - rw
               squized_space == rest_weight \div Len(g[r])
           IN [k \in 1..Len(g[r]) |->
                  [g[r][k] EXCEPT !.weight = g[r][k].weight + squized_space]]]

(* ------------------------------- setters ------------------------------- *)

set_content(c, s) == [c EXCEPT !.content = s]

set_row_span(c, n) == [c EXCEPT !.span_row = n]

set_horizontal_ident(c, n) == [c EXCEPT !.ident.left = n, !.ident.right = n]

set_vertical_ident(c, n) == [c EXCEPT !.ident.top = n, !.ident.bottom = n]

(* ---------------------------- state machine ---------------------------- *)

VARIABLES
    size,      \* Grid.size: <<rows, columns>>
    cells,     \* Grid.cells, row-major
    handle,    \* the &mut Cell last returned by Grid::cell (0-based index)
    calls,     \* setter calls made so far
    pc,        \* "build", "search", "write", "done" or "panic"
    fault,     \* what panicked
    checks,    \* the build's overflow checks: "any" until one decides
    weight,    \* cell_size: the width being tried
    portions,  \* row_portions_blocks(&rows)
    sizes,     \* cell_size: sizes at the width being tried
    grid,      \* Display::fmt: the formatters adjust returned
    out        \* the text written to the Formatter

vars == <<size, cells, handle, calls, pc, fault, checks, weight, portions,
          sizes, grid, out>>

\* the contents given to set_content
Contents == {<<>>, <<"a">>, <<"a", "a", NL, "a">>}

Sizes == {sz \in (0..MaxRows) \X (0..MaxCols) : sz[1] * sz[2] <= MaxCells}

\* Grid::new(rows, columns), then cell(i, j).set_content(s) on its cells
Init ==
    /\ size \in Sizes
    /\ cells \in [1..(size[1] * size[2]) -> {set_content(NewCell, s) : s \in Contents}]
    /\ handle = None
    /\ calls = 0
    /\ pc = "build"
    /\ fault = "none"
    /\ checks = "any"
    /\ weight = 0
    /\ portions = <<>>
    /\ sizes = <<>>
    /\ grid = <<>>
    /\ out = <<>>

render == <<weight, portions, sizes, grid, out>>

\* Grid::cell(i, j)
GridCell(i, j) ==
    /\ pc = "build"
    /\ calls < MaxCalls
    /\ LET index == CellIndex(size, cells, i, j)
       IN IF index = None
          THEN /\ pc' = "panic"
               /\ fault' = "cell_unwrap"
               /\ handle' = None
          ELSE /\ handle' = index
               /\ UNCHANGED <<pc, fault>>
    /\ UNCHANGED <<size, cells, calls, checks, render>>

\* a setter chained on the handle
Setter(c) ==
    /\ pc = "build"
    /\ handle # None
    /\ calls < MaxCalls
    /\ cells' = [cells EXCEPT ![handle + 1] = c]
    /\ calls' = calls + 1
    /\ UNCHANGED <<size, handle, pc, fault, checks, render>>

SetRowSpan(n) == Setter(set_row_span(cells[handle + 1], n))

SetHorizontalIdent(n) == Setter(set_horizontal_ident(cells[handle + 1], n))

SetVerticalIdent(n) == Setter(set_vertical_ident(cells[handle + 1], n))

\* Display::fmt up to the loop of cell_size
FmtBegin ==
    /\ pc = "build"
    /\ handle' = None
    /\ LET rs == RowsOf(cells, size[1], size[2])
           ps == row_portions_blocks(rs)
       IN IF RowsHeightPanics(rs)
          THEN /\ pc' = "panic"
               /\ fault' = "max_unwrap"
               /\ UNCHANGED <<weight, portions, sizes>>
          ELSE /\ pc' = "search"
               /\ weight' = ColumnsWeight(rs)
               /\ portions' = ps
               /\ sizes' = measure_cell_size(rs, ps, RowsHeight(rs), ColumnsWeight(rs))
               /\ UNCHANGED fault
    /\ UNCHANGED <<size, cells, calls, checks, grid, out>>

\* is_rows_size: row_weight of a row without positive widths panics when the
\* build checks overflow
SearchPanic ==
    /\ pc = "search"
    /\ RowsSizeUnderflows(sizes)
    /\ checks # "off"
    /\ checks' = "on"
    /\ pc' = "panic"
    /\ fault' = "sub_overflow"
    /\ UNCHANGED <<size, cells, handle, calls, render>>

\* is_rows_size returns (wrapping where it underflows, in a build that does)
RowsSizeReturns ==
    IF RowsSizeUnderflows(sizes)
    THEN checks # "on" /\ checks' = "off"
    ELSE UNCHANGED checks

\* cell_size: the loop body
SearchGrow ==
    /\ pc = "search"
    /\ RowsSizeReturns
    /\ ~is_rows_size(sizes)
    /\ weight < MaxWeight
    /\ weight' = weight + 1
    /\ LET rs == RowsOf(cells, size[1], size[2])
       IN sizes' = measure_cell_size(rs, portions, RowsHeight(rs), weight + 1)
    /\ UNCHANGED <<size, cells, handle, calls, pc, fault, portions, grid, out>>

\* cell_size returns; Display::fmt builds the formatters and calls adjust.
\* A row without formatters is a row is_rows_size has wrapped on (the build
\* checks no overflow): adjust wraps on it again and then divides by
\* r.len() = 0.
SearchExit ==
    /\ pc = "search"
    /\ RowsSizeReturns
    /\ is_rows_size(sizes)
    /\ LET g == Formatters(RowsOf(cells, size[1], size[2]), sizes)
       IN IF AdjustEmptyRow(g)
          THEN /\ pc' = "panic"
               /\ fault' = "div_zero"
               /\ grid' = g
          ELSE /\ pc' = "write"
               /\ grid' = adjust(cells, g)
               /\ UNCHANGED fault
    /\ UNCHANGED <<size, cells, handle, calls, weight, portions, sizes, out>>

RECURSIVE WriteRows(_, _, _, _)
\* Display::fmt, the loop: format the row's cells, concat_row, writeln
WriteRows(cs, g, k, acc) ==
    IF k > Len(g) THEN [ok |-> TRUE, text |-> acc]
    ELSE LET row == concat_row([i \in 1..Len(g[k]) |-> Format(cs, g[k][i])])
         IN IF row.ok
            THEN WriteRows(cs, g, k + 1, acc \o row.text \o <<NL>>)
            ELSE [ok |-> FALSE, text |-> acc]

FmtWrite ==
    /\ pc = "write"
    /\ LET w == WriteRows(cells, grid, 1, <<>>)
       IN /\ out' = w.text
          /\ pc' = IF w.ok THEN "done" ELSE "panic"
          /\ fault' = IF w.ok THEN fault ELSE "assert_eq"
    /\ UNCHANGED <<size, cells, handle, calls, checks, weight, portions, sizes, grid>>

Next ==
    \/ \E i \in 0..MaxRows, j \in 0..MaxCols : GridCell(i, j)
    \/ \E n \in 1..(MaxCols - 1) : SetRowSpan(n)
    \/ \E n \in 1..MaxIdent : SetHorizontalIdent(n)
    \/ \E n \in 1..MaxIdent : SetVerticalIdent(n)
    \/ FmtBegin
    \/ SearchPanic
    \/ SearchGrow
    \/ SearchExit
    \/ FmtWrite

Spec == Init /\ [][Next]_vars

(* ------------------------- notions of the claims ------------------------ *)

GridRows == RowsOf(cells, size[1], size[2])

\* every cell has content of positive width
NonEmptyContents == \A k \in 1..Len(cells) : CellWeight(cells[k]) > 0

\* every span stays inside its row
ValidSpans ==
    \A r \in 1..size[1], c \in 1..size[2] :
        (c - 1) + GridRows[r][c].span_row <= size[2] - 1

RECURSIVE CoveredScan(_, _, _)
\* remove_covered_cells, the scan: the columns (1-based) it drops from a row
CoveredScan(row, k, skip) ==
    IF k > Len(row) THEN {}
    ELSE IF skip > 0 THEN {k} \cup CoveredScan(row, k + 1, skip - 1)
    ELSE CoveredScan(row, k + 1, row[k].span_row)

Covered(row) == CoveredScan(row, 1, 0)

Visible(row) == (1..Len(row)) \ Covered(row)

\* the lengths of the lines of the text written
OutLineLengths == {Len(l) : l \in Range(Lines(out))}

(* -------------------------------- claims ------------------------------- *)

\* C1: for a grid with at least one row and one column, non-empty contents
\* and valid spans, whatever the horizontal padding, all lines of the
\* rendered text have the same length.
C1_Rectangular ==
    (pc = "done" /\ size[1] >= 1 /\ size[2] >= 1 /\ NonEmptyContents /\ ValidSpans)
        => Cardinality(OutLineLengths) <= 1

\* The width search can never again find equal totals: there are two rows,
\* all of whose cells have positive width, such that the second row's total
\* exceeds the first row's at the present width and at every larger one.
\* With portion sums SP < SQ, n1 cells in the first row and f32 products
\* within a factor 1 +- 2^-22 of the exact ones, the totals at a width w obey
\*   T1 <= w * SP * (1 + 2^-22) + n1 - 1  and  T2 > w * SQ * (1 - 2^-22) - 1,
\* so T2 > T1 as soon as w * (SQ - SP - 2^-22 * (SQ + SP)) >= n1.
PortionExp ==
    MinOf({0} \cup {portions[r][c].e : r \in 1..Len(portions), c \in 1..size[2]})

PortionUnits(p) == IF p.nan THEN 0 ELSE p.m * (2 ^ (p.e - PortionExp))

RowUnits(r) == SumSeq([c \in 1..size[2] |-> PortionUnits(portions[r][c])])

NeverEqual ==
    \E r1, r2 \in 1..Len(sizes) :
        /\ \A c \in 1..size[2] : sizes[r1][c][1] > 0 /\ sizes[r2][c][1] > 0
        /\ weight > 0
        /\ LET slack == (RowUnits(r1) + RowUnits(r2)) \div (2 ^ 22) + 1
               d == RowUnits(r2) - RowUnits(r1) - slack
           IN d >= (size[2] * (2 ^ (0 - PortionExp))) \div weight + 1

\* C2: for a grid with at least one row and one column, non-empty contents
\* and valid spans, the width search of cell_size reaches equal row totals
\* after finitely many increments: it is never in a state from which the
\* totals can never be equal.
C2_SearchConverges ==
    (pc = "search" /\ size[1] >= 1 /\ size[2] >= 1 /\ NonEmptyContents /\ ValidSpans)
        => ~NeverEqual

\* C3: a cell covered by the span of a preceding cell of its row is never
\* passed to the cell formatter (stated here for the grids with valid spans).
C3_CoveredNotFormatted ==
    ValidSpans =>
        \A r \in 1..Len(grid) : \A k \in 1..Len(grid[r]) :
            (grid[r][k].cell - size[2] * (r - 1)) + 1 \notin Covered(GridRows[r])

\* C4: with valid spans and any padding, the line-count assertion of
\* concat_lines never fails.
C4_ConcatAssertHolds == ValidSpans => fault # "assert_eq"

\* C5: rendering a grid with zero rows or zero columns fails nowhere and
\* yields the empty string.
C5_DegenerateRendersEmpty ==
    (size[1] = 0 \/ size[2] = 0)
        => /\ fault \in {"none", "cell_unwrap"}
           /\ pc = "done" => out = <<>>

\* C6: Grid::cell(i, j) with i >= rows or j >= columns fails and returns no
\* handle to a cell of the grid.
C6_CellOutOfRangeFails ==
    [][\A i \in 0..MaxRows, j \in 0..MaxCols :
          (GridCell(i, j) /\ (i >= size[1] \/ j >= size[2]))
              => (pc' = "panic" /\ handle' = None /\ cells' = cells)]_vars

\* C7: when rendering completes for a grid with valid spans, in each row
\* the leftmost formatter, and no other, draws the left border and the left
\* corner; a formatter draws the top border exactly in row 0; every formatter
\* draws the right border, the right corner and the bottom border.
C7_Borders ==
    (pc = "done" /\ ValidSpans) =>
        \A r \in 1..Len(grid) : \A k \in 1..Len(grid[r]) :
            LET f == grid[r][k]
            IN /\ f.left = (k = 1)
               /\ f.left_connection = (k = 1)
               /\ f.top = (r = 1)
               /\ f.right /\ f.right_connection /\ f.bottom

RECURSIVE ExpectedLineCounts(_)
\* the line counts C8 allows from row k on: per row, the largest natural line
\* count of a visible cell plus the vertical padding of one of the row's
\* visible cells, and after the last row one border line per row plus one
ExpectedLineCounts(k) ==
    IF k > size[1] THEN {size[1] + 1}
    ELSE LET row == GridRows[k]
             h == MaxOf({0} \cup {CellHeight(row[c]) : c \in Visible(row)})
             pads == {row[c].ident.top + row[c].ident.bottom : c \in Visible(row)}
         IN {h + p + t : p \in pads, t \in ExpectedLineCounts(k + 1)}

\* C8: when rendering completes for a grid with valid spans (here: with at
\* least one row and one column and non-empty contents), the number of lines
\* written is the sum over the rows of the largest natural line count of a
\* visible cell and the row's vertical padding, plus rows + 1 border lines.
C8_LineCount ==
    (pc = "done" /\ ValidSpans /\ size[1] >= 1 /\ size[2] >= 1 /\ NonEmptyContents)
        => Len(Lines(out)) \in ExpectedLineCounts(1)

\* C9: for a grid with valid spans and some non-empty cell, every visible
\* cell gets its own formatter: a row has as many formatters as visible cells.
C9_VisibleRendered ==
    (pc \in {"write", "done"} /\ ValidSpans
         /\ \E k \in 1..Len(cells) : cells[k].content # <<>>)
        => \A r \in 1..Len(grid) :
               Len(grid[r]) = Cardinality(Visible(GridRows[r]))

\* a block all of whose cells are empty (reference weight 0)
HasEmptyBlock ==
    LET blocks == Blocks(GridRows)
    IN \E b \in 1..Len(blocks) :
           size[2] >= 1 /\ BlockWeight(GridRows, blocks[b]) = 0

\* C10: with a block whose cells are all empty, rendering meets no
\* arithmetic fault (no unsigned underflow, no division by zero), whether
\* the whole grid is empty or other blocks are not.
C10_EmptyBlockNoFault ==
    HasEmptyBlock => fault \notin {"sub_overflow", "div_zero"}

(* ------------------- a cell formatted on its own ------------------------ *)

\* largest height given to CellFormatter::height
MaxHeight == 3
\* largest weight given to CellFormatter::weight
MaxFmtWeight == 4

\* the texts given to set_content on the single cell
CellContents == {<<>>, <<"a">>, <<NL>>, <<"a", NL>>, <<"a", "a", NL, "a">>}

\* the texts given to set_corner
Corners == {<<>>, <<"-">>, <<"+", "+">>}

set_corner(c, s) == [c EXCEPT !.border.corner = s]

set_alignment(c, a) == [c EXCEPT !.alignment = a]

\* CellFormatter::new; the reference cell is the 0-based index of the cell
CellFormatterNew(cell) ==
    [cell |-> cell, left |-> FALSE, right |-> FALSE, top |-> FALSE,
     bottom |-> FALSE, left_connection |-> FALSE, right_connection |-> FALSE,
     weight |-> 0, height |-> 0]

boxed(f) ==
    [f EXCEPT !.left = TRUE, !.right = TRUE, !.top = TRUE, !.bottom = TRUE,
              !.right_connection = TRUE, !.left_connection = TRUE]

un_left(f) == [f EXCEPT !.left = FALSE]

un_left_connection(f) == [f EXCEPT !.left_connection = FALSE]

un_top(f) == [f EXCEPT !.top = FALSE]

un_bottom(f) == [f EXCEPT !.bottom = FALSE]

\* CellFormatter::weight(w)
formatter_weight(f, w) == [f EXCEPT !.weight = w]

\* CellFormatter::height(h)
formatter_height(f, h) == [f EXCEPT !.height = h]

\* let mut cell = Cell::new();
InitCell ==
    /\ size = <<1, 1>>
    /\ cells = <<NewCell>>
    /\ handle = None
    /\ calls = 0
    /\ pc = "cell"
    /\ fault = "none"
    /\ checks = "any"
    /\ weight = 0
    /\ portions = <<>>
    /\ sizes = <<>>
    /\ grid = <<>>
    /\ out = <<>>

\* a setter called on the cell, before a formatter borrows it
CellSetter(c) ==
    /\ pc = "cell"
    /\ cells' = <<c>>
    /\ UNCHANGED <<size, handle, calls, pc, fault, checks, render>>

CellSetContent(s) == CellSetter(set_content(cells[1], s))

CellSetCorner(s) == CellSetter(set_corner(cells[1], s))

CellSetAlignment(a) == CellSetter(set_alignment(cells[1], a))

CellSetVerticalIdent(n) == CellSetter(set_vertical_ident(cells[1], n))

CellSetHorizontalIdent(n) == CellSetter(set_horizontal_ident(cells[1], n))

\* CellFormatter::new(&cell)
FormatterNew ==
    /\ pc = "cell"
    /\ pc' = "formatter"
    /\ grid' = << <<CellFormatterNew(0)>> >>
    /\ UNCHANGED <<size, cells, handle, calls, fault, checks, weight, portions,
                   sizes, out>>

\* a builder method chained on the formatter
FormatterBuild(f) ==
    /\ pc = "formatter"
    /\ grid' = << <<f>> >>
    /\ UNCHANGED <<size, cells, handle, calls, pc, fault, checks, weight,
                   portions, sizes, out>>

FormatterBoxed == FormatterBuild(boxed(grid[1][1]))

FormatterUnLeft == FormatterBuild(un_left(grid[1][1]))

FormatterUnLeftConnection == FormatterBuild(un_left_connection(grid[1][1]))

FormatterUnTop == FormatterBuild(un_top(grid[1][1]))

FormatterUnBottom == FormatterBuild(un_bottom(grid[1][1]))

FormatterWeight(w) == FormatterBuild(formatter_weight(grid[1][1], w))

FormatterHeight(h) == FormatterBuild(formatter_height(grid[1][1], h))

\* CellFormatter::format
FormatterFormat ==
    /\ pc = "formatter"
    /\ pc' = "formatted"
    /\ out' = Format(cells, grid[1][1])
    /\ UNCHANGED <<size, cells, handle, calls, fault, checks, weight, portions,
                   sizes, grid>>

NextFormat ==
    \/ \E s \in CellContents : CellSetContent(s)
    \/ \E s \in Corners : CellSetCorner(s)
    \/ \E a \in {"Center", "Left", "Right"} : CellSetAlignment(a)
    \/ \E n \in 0..MaxIdent : CellSetVerticalIdent(n)
    \/ \E n \in 0..MaxIdent : CellSetHorizontalIdent(n)
    \/ FormatterNew
    \/ FormatterBoxed
    \/ FormatterUnLeft
    \/ FormatterUnLeftConnection
    \/ FormatterUnTop
    \/ FormatterUnBottom
    \/ \E w \in 0..MaxFmtWeight : FormatterWeight(w)
    \/ \E h \in 0..MaxHeight : FormatterHeight(h)
    \/ FormatterFormat

SpecFormat == InitCell /\ [][NextFormat]_vars

\* the single cell and its formatter
TheCell == cells[1]

TheFormatter == grid[1][1]

\* C11: for a cell with any corner text (empty or of several characters
\* included), any padding, any height, any border flags and a width at least
\* the cell's widest line, all lines of the block CellFormatter::format
\* returns have the same length.
C11_FormatLinesEqual ==
    (pc = "formatted" /\ TheFormatter.weight >= CellWeight(TheCell))
        => Cardinality(OutLineLengths) <= 1

\* the lines of the block returned, as join put them together
OutBlockLines == SplitNL(out)

\* the border line a boxed formatter draws above and below the content
BorderLine(c, f) ==
    LET w == IF f.weight = 0 THEN CellWeight(c) ELSE f.weight
    IN c.border.corner \o Repeat(c.border.top, w + c.ident.left + c.ident.right)
           \o c.border.corner

\* C12: for a cell with any content, any top and bottom padding and any
\* assigned height h (h = 0 when none is set), the block a boxed formatter
\* returns is one top border line, then padding.top + max(h, natural line
\* count) + padding.bottom content lines, then one bottom border line.
C12_BoxedBlockStructure ==
    (pc = "formatted" /\ TheFormatter = boxed(TheFormatter))
        => LET natural == CellHeight(TheCell)
               h == TheFormatter.height
               n == TheCell.ident.top + (IF h > natural THEN h ELSE natural)
                        + TheCell.ident.bottom
           IN /\ Len(OutBlockLines) = n + 2
              /\ OutBlockLines[1] = BorderLine(TheCell, TheFormatter)
              /\ OutBlockLines[Len(OutBlockLines)] = BorderLine(TheCell, TheFormatter)

(* ------------------- row_portions_blocks on its own --------------------- *)

\* largest number of rows / columns / cells of the grids given to it
MaxBlockRows == 4
MaxBlockCols == 2
MaxBlockCells == 6
\* largest size given to set_row_span
MaxSpan == 1

BlockSizes ==
    {sz \in (0..MaxBlockRows) \X (0..MaxBlockCols) : sz[1] * sz[2] <= MaxBlockCells}

\* the contents given to set_content
BlockContents == {<<"a">>, <<"a", "a">>}

\* Grid::new(rows, columns), then set_content and set_row_span on its cells
InitBlocks ==
    /\ size \in BlockSizes
    /\ cells \in [1..(size[1] * size[2]) ->
                     {set_row_span(set_content(NewCell, s), n) :
                          s \in BlockContents, n \in 0..MaxSpan}]
    /\ handle = None
    /\ calls = 0
    /\ pc = "build"
    /\ fault = "none"
    /\ checks = "any"
    /\ weight = 0
    /\ portions = <<>>
    /\ sizes = <<>>
    /\ grid = <<>>
    /\ out = <<>>

\* row_portions_blocks(&self.rows())
RowPortionsBlocks ==
    /\ pc = "build"
    /\ pc' = "blocks"
    /\ portions' = row_portions_blocks(RowsOf(cells, size[1], size[2]))
    /\ UNCHANGED <<size, cells, handle, calls, fault, checks, weight, sizes,
                   grid, out>>

NextBlocks == RowPortionsBlocks

SpecBlocks == InitBlocks /\ [][NextBlocks]_vars

\* the blocks of the grid, each the sequence of its row numbers (from 1)
GridBlocks == Blocks(GridRows)

\* the block a row is in
BlockOf(r) ==
    CHOOSE b \in 1..Len(GridBlocks) : r \in Range(GridBlocks[b])

\* C13: for a grid with at least one row, the blocks of row_portions_blocks
\* partition the rows into runs of consecutive rows in the original order
\* (the first block starts at the first row, every block continues with the
\* next row, every block starts after the end of the block before it, the
\* last block ends at the last row), all rows of a block have the same span
\* sequence, two adjacent blocks have different span sequences, and the
\* function returns one portion vector per row, one entry per column, the
\* same vector for all rows of a block.
C13_BlocksPartition ==
    (pc = "blocks" /\ size[1] >= 1) =>
        LET bs == GridBlocks
            n == Len(bs)
        IN /\ n >= 1
           /\ \A b \in 1..n : Len(bs[b]) >= 1
           /\ bs[1][1] = 1
           /\ bs[n][Len(bs[n])] = size[1]
           /\ \A b \in 1..n : \A k \in 1..(Len(bs[b]) - 1) :
                  bs[b][k + 1] = bs[b][k] + 1
           /\ \A b \in 1..(n - 1) : bs[b + 1][1] = bs[b][Len(bs[b])] + 1
           /\ \A r \in 1..size[1] :
                  Cardinality({<<b, k>> \in (1..n) \X (1..size[1]) :
                                   k <= Len(bs[b]) /\ bs[b][k] = r}) = 1
           /\ \A b \in 1..n : \A k1, k2 \in 1..Len(bs[b]) :
                  Spans(GridRows[bs[b][k1]]) = Spans(GridRows[bs[b][k2]])
           /\ \A b \in 1..(n - 1) :
                  Spans(GridRows[bs[b][Len(bs[b])]]) # Spans(GridRows[bs[b + 1][1]])
           /\ Len(portions) = size[1]
           /\ \A r \in 1..size[1] : Len(portions[r]) = size[2]
           /\ \A r1, r2 \in 1..size[1] :
                  BlockOf(r1) = BlockOf(r2) => portions[r1] = portions[r2]

\* a grid in several blocks, one of them of two rows or more, where the
\* portion vectors of two blocks differ
C13_Witness ==
    /\ pc = "blocks"
    /\ Len(GridBlocks) >= 2
    /\ \E b \in 1..Len(GridBlocks) : Len(GridBlocks[b]) >= 2
    /\ \E r1, r2 \in 1..size[1] : portions[r1] # portions[r2]

(* ----------------------- grids with wide contents ----------------------- *)

\* the widths of the contents given to set_content
WideWidths == {0, 1, 9, 13}

WideContents == {Repeat(<<"a">>, n) : n \in WideWidths}

WideSizes == {<<1, 2>>, <<2, 2>>}

\* Grid::new(rows, columns), then cell(i, j).set_content(s) on its cells
InitWide ==
    /\ size \in WideSizes
    /\ cells \in [1..(size[1] * size[2]) ->
                     {set_content(NewCell, s) : s \in WideContents}]
    /\ handle = None
    /\ calls = 0
    /\ pc = "build"
    /\ fault = "none"
    /\ checks = "any"
    /\ weight = 0
    /\ portions = <<>>
    /\ sizes = <<>>
    /\ grid = <<>>
    /\ out = <<>>

SpecWide == InitWide /\ [][Next]_vars

\* C14: for a grid without an empty block, at every width W the search of
\* cell_size tries (W is at least the largest natural width of a row), the
\* width floor(W * portion) given to a cell is at least the cell's natural
\* width, the length of its widest line.
C14_WidthCoversContent ==
    (pc \in {"search", "write", "done"} /\ ~HasEmptyBlock
         /\ weight >= ColumnsWeight(GridRows))
        => \A r \in 1..size[1] : \A c \in 1..size[2] :
               sizes[r][c][1] >= CellWeight(GridRows[r][c])

====
